---- MODULE Spec2Model ----
\* Verification model of bdestrempes-dev: the reading-time estimator
\* (src/lib/utils.ts), the table-of-contents builder (TableOfContents.astro)
\* the article listings (rss.xml.ts, articles index, home page) and the
\* diagram post-processing script (Excalidraw.astro).
EXTENDS Integers, Sequences, FiniteSets, TLC

VARIABLES
    html,        \* argument of readingTime
    rtOut,       \* outcome of the readingTime call
    headings,    \* argument of buildToc
    tocPos,      \* number of headings the forEach of buildToc has handled
    toc,         \* buildToc: the roots, as positions of the input
    stack,       \* buildToc: the open ancestors, as positions of the input
    nodes,       \* buildToc: the copies { ...h, subheadings: [] } made so far
    tocStatus,   \* buildToc: "running", "returned" or "thrown"
    collection,  \* the 'articles' content collection
    rssOut,      \* response of the RSS route
    rssFailure,  \* what failed inside the try block of the RSS route
    pagesOut,    \* pages produced by getStaticPaths of the articles index
    homeOut,     \* articles rendered by the home page
    indexOut,    \* year groups rendered by the pages of the articles index
    svgPhase,    \* Excalidraw script: "unloaded", "waitDCL", "ready", "swapping"
    lastEvent,   \* the handler or continuation that ran last
    isProcessing,         \* Excalidraw script: the reentrancy flag
    processedContainers,  \* Excalidraw script: the visited set
    view,        \* number of the current page view (1 = initial load)
    loads,       \* astro:page-load events fired in the current page view
    urlOf,       \* per container of the document: whether it has data-svg-url
    content,     \* per container of the document: its innerHTML
    inflight     \* per container: processSvgContainer calls suspended at await fetch

rtVars   == <<html, rtOut>>
tocVars  == <<headings, tocPos, toc, stack, nodes, tocStatus>>
siteVars == <<collection, rssOut, rssFailure, pagesOut, homeOut, indexOut>>
svgVars  == <<svgPhase, lastEvent, isProcessing, processedContainers, view, loads,
              urlOf, content, inflight>>
vars     == <<html, rtOut, headings, tocPos, toc, stack, nodes, tocStatus,
              collection, rssOut, rssFailure, pagesOut, homeOut, indexOut,
              svgPhase, lastEvent, isProcessing, processedContainers, view,
              loads, urlOf, content, inflight>>

\* ------------------------------------------------------------------ bounds
MaxLen     == 7      \* longest enumerated input string, in characters
MaxWords   == 401    \* most repetitions in a generated text
MaxWordLen == 6      \* longest word of a generated text
ManyWords  == 2001   \* words of the long generated text
MaxHeadings == 6    \* most headings of a document
MaxCarried  == 4    \* most headings of a document whose headings carry subheadings
MaxArticles == 4     \* most entries of the articles collection
MaxDate     == 3     \* publication dates are 1..MaxDate
MaxViews    == 2     \* page views: the initial load and the navigations
NumContainers == 2   \* diagram containers of a page
MaxPageLoads == 1    \* astro:page-load events per page view

\* --------------------------------------------------------- program values
WORDS_PER_MINUTE == 200
LongWordLimit    == 5
Fallback         == "10 min read"

WS == {" "}
Alphabet == {"a", " ", "<", ">"}

Min(S) == CHOOSE x \in S : \A y \in S : x <= y

\* A JavaScript value passed as html: null, undefined or a string (a sequence
\* of characters).
Null      == [kind |-> "null", chars |-> <<>>]
Undefined == [kind |-> "undefined", chars |-> <<>>]
Str(s)    == [kind |-> "string", chars |-> s]

\* Outcome of evaluating an expression: a value, or a thrown exception.
Ok(v)  == [threw |-> FALSE, val |-> v]
Threw  == [threw |-> TRUE, val |-> <<>>]

OrEmptyNoDefault(h) == h

\* (html || ''): falsy values (null, undefined, '') become ''.
OrEmpty(h) == IF h.kind = "string" THEN h ELSE Str(<<>>)

\* s.replace(/<[^>]+>/g, ''), one character of the scan: a character inside
\* the current match is dropped; a '<' followed by at least one character
\* other than '>' and then '>' starts a match that ends at that '>'; every
\* other character is kept.
StripStep(s, st, i) ==
    IF i <= st.skip THEN st
    ELSE IF s[i] = "<" /\ \E j \in (i + 1)..Len(s) : s[j] = ">"
         THEN LET j == Min({k \in (i + 1)..Len(s) : s[k] = ">"})
              IN  IF j >= i + 2 THEN [st EXCEPT !.skip = j]
                  ELSE [st EXCEPT !.acc = Append(@, s[i])]
         ELSE [st EXCEPT !.acc = Append(@, s[i])]

\* The scan over positions lo..hi, left to right.
RECURSIVE StripRange(_, _, _, _)
StripRange(s, st, lo, hi) ==
    IF lo > hi THEN st
    ELSE IF lo = hi THEN StripStep(s, st, lo)
    ELSE LET mid  == (lo + hi) \div 2
             left == StripRange(s, st, lo, mid)
         IN  IF left.skip >= hi THEN left
             ELSE StripRange(s, left, mid + 1, hi)

\* replace is a string method: calling it on a value that is not a string
\* throws.
StripTags(h) ==
    IF h.kind = "string"
    THEN Ok(StripRange(h.chars, [skip |-> 0, acc |-> <<>>], 1, Len(h.chars)).acc)
    ELSE Threw

\* String.prototype.trim
RECURSIVE TrimStart(_, _)
TrimStart(s, i) == IF i <= Len(s) /\ s[i] \in WS THEN TrimStart(s, i + 1) ELSE i
RECURSIVE TrimEnd(_, _)
TrimEnd(s, i) == IF i >= 1 /\ s[i] \in WS THEN TrimEnd(s, i - 1) ELSE i

Trim(s) == SubSeq(s, TrimStart(s, 1), TrimEnd(s, Len(s)))

\* s.split(/\s+/): the pieces between maximal runs of whitespace; a leading
\* or trailing run leaves an empty piece, and "" gives [""].
RECURSIVE PieceEnd(_, _)
PieceEnd(s, i) ==
    IF i < Len(s) /\ s[i + 1] \notin WS THEN PieceEnd(s, i + 1) ELSE i

RECURSIVE Pieces(_, _, _)
Pieces(s, lo, hi) ==
    IF lo > hi THEN <<>>
    ELSE IF lo = hi
         THEN IF s[lo] \notin WS /\ (lo = 1 \/ s[lo - 1] \in WS)
              THEN <<SubSeq(s, lo, PieceEnd(s, lo))>>
              ELSE <<>>
         ELSE LET mid == (lo + hi) \div 2
              IN  Pieces(s, lo, mid) \o Pieces(s, mid + 1, hi)

Split(s) ==
    IF s = <<>> THEN << <<>> >>
    ELSE (IF s[1] \in WS THEN << <<>> >> ELSE <<>>)
             \o Pieces(s, 1, Len(s))
             \o (IF s[Len(s)] \in WS THEN << <<>> >> ELSE <<>>)

\* .filter(Boolean): the empty string is falsy.
FilterBoolean(ws) == SelectSeq(ws, LAMBDA w : w # <<>>)

\* (word as any).slice(-1, 5).reverse().length: slice returns a string and a
\* string has no reverse method, so the call throws a TypeError.
SliceReverseLength(word) == Threw

\* The reduce callback: a word longer than 5 characters goes through
\* slice/reverse, any other word counts 1.
CountWord(count, word) ==
    IF Len(word) > LongWordLimit
    THEN LET r == SliceReverseLength(word)
         IN  IF r.threw THEN Threw ELSE Ok(count + r.val)
    ELSE Ok(count + 1)

\* words.reduce(callback, count) over words lo..hi, left to right; an
\* exception in the callback ends the reduction.
RECURSIVE ReduceRange(_, _, _, _)
ReduceRange(ws, count, lo, hi) ==
    IF lo > hi THEN Ok(count)
    ELSE IF lo = hi THEN CountWord(count, ws[lo])
    ELSE LET mid  == (lo + hi) \div 2
             left == ReduceRange(ws, count, lo, mid)
         IN  IF left.threw THEN left
             ELSE ReduceRange(ws, left.val, mid + 1, hi)

WordCount(ws) == ReduceRange(ws, 0, 1, Len(ws))

FloorDiv(n, d) == n \div d

\* Math.ceil(n / 200) for a non-negative integer n.
CeilDiv(n, d) == IF n % d = 0 THEN n \div d ELSE (n \div d) + 1

\* Math.max(1, Math.ceil(wordCount / 200))
Minutes(wordCount) ==
    LET c == CeilDiv(wordCount, WORDS_PER_MINUTE) IN IF c > 1 THEN c ELSE 1

\* `${readingTimeMinutes} min read`
Format(n) == ToString(n) \o " min read"

\* The body of the try block.
TryBody(h) ==
    LET stripped == StripTags(OrEmpty(h))
    IN  IF stripped.threw THEN Threw
        ELSE LET textOnly == Trim(stripped.val)
                 words    == FilterBoolean(Split(textOnly))
                 wc       == WordCount(words)
             IN  IF wc.threw THEN Threw ELSE Ok(Format(Minutes(wc.val)))

NoCatch(r) ==
    IF r.threw THEN [status |-> "thrown", value |-> ""]
    ELSE [status |-> "returned", value |-> r.val]

\* try { ... } catch (error) { return '10 min read' }
Catch(r) ==
    IF r.threw THEN [status |-> "returned", value |-> Fallback]
    ELSE [status |-> "returned", value |-> r.val]

readingTime(h) == Catch(TryBody(h))

\* --------------------------------------------------------------- inputs
\* String.prototype.repeat
RECURSIVE Repeat(_, _)
Repeat(s, n) ==
    IF n = 0 THEN <<>>
    ELSE IF n = 1 THEN s
    ELSE Repeat(s, n \div 2) \o Repeat(s, n - (n \div 2))

\* `<p>${word.repeat(w)}</p>` where word is l letters and a space
Letters == <<"w", "o", "r", "d", "i", "n", "g", "s">>
TaggedWords(l, w) ==
    <<"<", "p", ">">> \o Repeat(Append(SubSeq(Letters, 1, l), " "), w)
        \o <<"<", "/", "p", ">">>

\* '<h1>Title</h1><p>Paragraph with <strong>bold</strong> text.</p>
\*  <ul><li>Item 1</li><li>Item 2</li></ul>', on one line
MultiTagHtml ==
    << "<", "h", "1", ">", "T", "i", "t", "l", "e", "<", "/", "h",
       "1", ">", "<", "p", ">", "P", "a", "r", "a", "g", "r", "a",
       "p", "h", " ", "w", "i", "t", "h", " ", "<", "s", "t", "r",
       "o", "n", "g", ">", "b", "o", "l", "d", "<", "/", "s", "t",
       "r", "o", "n", "g", ">", " ", "t", "e", "x", "t", ".", "<",
       "/", "p", ">", "<", "u", "l", ">", "<", "l", "i", ">", "I",
       "t", "e", "m", " ", "1", "<", "/", "l", "i", ">", "<", "l",
       "i", ">", "I", "t", "e", "m", " ", "2", "<", "/", "l", "i",
       ">", "<", "/", "u", "l", ">" >>

\* The arguments readingTime is called with: null, undefined, every string
\* of at most MaxLen characters of Alphabet, the generated texts, a long
\* text of one-letter words and the document with several elements.
IsHtmlInput(h) ==
    \/ h \in {Null, Undefined}
    \/ \E n \in 0..MaxLen : \E f \in [1..n -> Alphabet] :
           h = Str([i \in 1..n |-> f[i]])
    \/ \E l \in 1..MaxWordLen : \E w \in 0..MaxWords :
           h = Str(TaggedWords(l, w))
    \/ h = Str(TaggedWords(1, ManyWords))
    \/ h = Str(MultiTagHtml)

Pending == [status |-> "pending", value |-> ""]

\* ----------------------------------------------------- reading-time spec
CallReadingTime ==
    /\ rtOut.status = "pending"
    /\ rtOut' = readingTime(html)
    /\ UNCHANGED <<html, tocVars, siteVars, svgVars>>

TocIdle ==
    /\ headings = <<>> /\ tocPos = 0 /\ toc = <<>> /\ stack = <<>>
    /\ nodes = <<>> /\ tocStatus = "running"

NotRun == [state |-> "pending", status |-> 0, items |-> <<>>]

SiteIdle ==
    /\ collection = <<>> /\ rssOut = NotRun /\ pagesOut = NotRun
    /\ homeOut = NotRun /\ rssFailure = "none" /\ indexOut = NotRun

\* The diagram containers of the current document, and Detached, which
\* stands for every container of a document that a navigation has replaced:
\* such a container is out of the page, only the script still refers to it.
Containers == 1..NumContainers
Detached   == 0
Elements   == Containers \cup {Detached}

\* What ran: the script itself, a listener, the swap of the document, or the
\* continuation of processSvgContainer for container c after outcome r.
Event(name, c, r) == [name |-> name, c |-> c, r |-> r]
Ran(name) == Event(name, Detached, "none")

SvgIdle ==
    /\ svgPhase = "unloaded" /\ isProcessing = FALSE
    /\ lastEvent = Ran("none")
    /\ processedContainers = {} /\ view = 1 /\ loads = 0
    /\ urlOf = [c \in Containers |-> FALSE]
    /\ content = [c \in Containers |-> "img"]
    /\ inflight = [c \in Elements |-> 0]

InitRT ==
    /\ IsHtmlInput(html)
    /\ rtOut = Pending
    /\ TocIdle
    /\ SiteIdle
    /\ SvgIdle

NextRT == CallReadingTime

SpecRT == InitRT /\ [][NextRT]_vars

\* ------------------------------------------------------------ buildToc
\* Heading depths: h1 .. h6.
MaxDepth == 6
Depths == 1..MaxDepth

\* The headings of a document: depth, slug (unique within the document) and
\* an empty subheadings list.
IsHeadingList(hs) ==
    \E n \in 0..MaxHeadings : \E ds \in [1..n -> Depths] :
        hs = [i \in 1..n |->
                 [depth |-> ds[i], slug |-> i, subheadings |-> <<>>]]

\* An entry of a subheadings list that the caller left in an input heading.
Stale == 0

\* The headings of a document, some of them carrying subheadings already.
IsCarriedHeadingList(hs) ==
    \E n \in 0..MaxCarried : \E ds \in [1..n -> Depths] :
        \E cs \in [1..n -> BOOLEAN] :
            hs = [i \in 1..n |->
                     [depth |-> ds[i], slug |-> i,
                      subheadings |-> IF cs[i] THEN <<Stale>> ELSE <<>>]]

ShallowCopy(h) ==
    [depth |-> h.depth, slug |-> h.slug, subheadings |-> h.subheadings,
     shared |-> TRUE]

\* const heading = { ...h, subheadings: [] }: a new object with a new
\* array; shared tells whether the subheadings array of the object is the
\* array of the input heading.
NewHeading(h) ==
    [depth |-> h.depth, slug |-> h.slug, subheadings |-> <<>>,
     shared |-> FALSE]

RECURSIVE PopWhileDeeper(_, _, _)
PopWhileDeeper(st, ns, d) ==
    IF Len(st) > 0 /\ ns[st[Len(st)]].depth > d
    THEN PopWhileDeeper(SubSeq(st, 1, Len(st) - 1), ns, d)
    ELSE st

\* while (stack.length > 0 && stack[stack.length - 1].depth >= heading.depth)
\*   stack.pop()
RECURSIVE PopWhile(_, _, _)
PopWhile(st, ns, d) ==
    IF Len(st) > 0 /\ ns[st[Len(st)]].depth >= d
    THEN PopWhile(SubSeq(st, 1, Len(st) - 1), ns, d)
    ELSE st

AtTopLevelInverted(st) == Len(st) # 0

\* if (stack.length === 0)
AtTopLevel(st) == Len(st) = 0

\* stack[stack.length - 1]: undefined on an empty stack, and reading
\* .subheadings of undefined throws.
StackTop(st) == IF Len(st) = 0 THEN Threw ELSE Ok(st[Len(st)])

AttachToBottom(st) == IF Len(st) = 0 THEN Threw ELSE Ok(st[1])

\* the heading that receives the new subheading
AttachTarget(st) == StackTop(st)

PrependChild(subs, i) == <<i>> \o subs

\* subheadings.push(heading)
AppendChild(subs, i) == Append(subs, i)

NoPush(st, i) == st

\* stack.push(heading)
Push(st, i) == Append(st, i)

\* The input after subheadings.push(heading) on the object at position t:
\* the push reaches the input only through an array the two share.
InputAfterPush(t, i) ==
    IF nodes[t].shared
    THEN [headings EXCEPT ![t].subheadings = Append(@, i)]
    ELSE headings

\* One call of the forEach callback: copy the heading, pop the stack, attach
\* the copy to the roots or to the top of the stack, push it.
TocStep ==
    /\ tocStatus = "running"
    /\ tocPos < Len(headings)
    /\ LET i       == tocPos + 1
           heading == NewHeading(headings[i])
           popped  == PopWhile(stack, nodes, heading.depth)
           target  == AttachTarget(popped)
       IN  IF AtTopLevel(popped)
           THEN /\ toc' = Append(toc, i)
                /\ nodes' = Append(nodes, heading)
                /\ stack' = Push(popped, i)
                /\ tocPos' = i
                /\ UNCHANGED <<tocStatus, headings>>
           ELSE IF target.threw
           THEN /\ tocStatus' = "thrown"
                /\ stack' = popped
                /\ UNCHANGED <<toc, nodes, tocPos, headings>>
           ELSE /\ nodes' = Append([nodes EXCEPT ![target.val].subheadings =
                                       AppendChild(@, i)], heading)
                /\ headings' = InputAfterPush(target.val, i)
                /\ stack' = Push(popped, i)
                /\ tocPos' = i
                /\ UNCHANGED <<toc, tocStatus>>
    /\ UNCHANGED <<rtVars, siteVars, svgVars>>

\* return toc
TocReturn ==
    /\ tocStatus = "running"
    /\ tocPos = Len(headings)
    /\ tocStatus' = "returned"
    /\ UNCHANGED <<headings, tocPos, toc, stack, nodes, rtVars, siteVars, svgVars>>

InitToc ==
    /\ IsHeadingList(headings)
    /\ tocPos = 0 /\ toc = <<>> /\ stack = <<>> /\ nodes = <<>>
    /\ tocStatus = "running"
    /\ html = Null /\ rtOut = Pending
    /\ SiteIdle
    /\ SvgIdle

NextToc == TocStep \/ TocReturn

SpecToc == InitToc /\ [][NextToc]_vars

\* buildToc called with headings that carry subheadings.
InitTocCarried ==
    /\ IsCarriedHeadingList(headings)
    /\ tocPos = 0 /\ toc = <<>> /\ stack = <<>> /\ nodes = <<>>
    /\ tocStatus = "running"
    /\ html = Null /\ rtOut = Pending
    /\ SiteIdle
    /\ SvgIdle

SpecTocCarried == InitTocCarried /\ [][NextToc]_vars

\* ---------------------------------------------------- article listings
NUM_POSTS_ON_HOMEPAGE == 2
POSTS_PER_PAGE        == 3

\* The entries of the 'articles' collection: id, data.date, data.draft.
IsCollection(c) ==
    \E n \in 0..MaxArticles :
        \E f \in [1..n -> [date : 1..MaxDate, draft : BOOLEAN]] :
            c = [i \in 1..n |-> [id |-> i, date |-> f[i].date, draft |-> f[i].draft]]

KeepAll(post) == TRUE

\* (post) => !post.data.draft
NotDraft(post) == ~post.draft

\* articles.filter((post) => !post.data.draft)
Published(q) == SelectSeq(q, NotDraft)

OldestFirst(a, b) == a.date - b.date

\* The comparator (a, b) => b.data.date.valueOf() - a.data.date.valueOf()
NewestFirst(a, b) == b.date - a.date

\* Array.prototype.sort with that comparator; the sort is stable, so x goes
\* after every element that does not compare greater than it.
RECURSIVE InsertSorted(_, _)
InsertSorted(x, q) ==
    IF q = <<>> THEN <<x>>
    ELSE IF NewestFirst(Head(q), x) <= 0
         THEN <<Head(q)>> \o InsertSorted(x, Tail(q))
         ELSE <<x>> \o q

NoSort(q) == q

RECURSIVE SortFrom(_, _, _)
SortFrom(q, i, acc) ==
    IF i > Len(q) THEN acc ELSE SortFrom(q, i + 1, InsertSorted(q[i], acc))

Sort(q) == SortFrom(q, 1, <<>>)

\* Array.prototype.slice(0, n)
Slice(q, n) == SubSeq(q, 1, IF n < Len(q) THEN n ELSE Len(q))

\* items.map((item) => ({ title, description, pubDate, link }))
FeedItem(item) == [title |-> item.id, pubDate |-> item.date, link |-> item.id]
FeedItems(q) == [k \in 1..Len(q) |-> FeedItem(q[k])]

\* paginate(data, { pageSize }): consecutive chunks of pageSize entries, and
\* a single empty page when there is no entry.
Paginate(q, pageSize) ==
    LET last == IF Len(q) = 0 THEN 1 ELSE CeilDiv(Len(q), pageSize)
    IN  [p \in 1..last |->
            SubSeq(q, (p - 1) * pageSize + 1,
                   IF p * pageSize < Len(q) THEN p * pageSize ELSE Len(q))]

\* What can fail inside the try block of GET: nothing, the await of
\* getCollection, or the call of rss().
RssFailures == {"none", "getCollection", "rss"}

\* The try block of GET: the feed of the non-draft articles, newest first.
RssTry(failure, coll) ==
    IF failure # "none" THEN Threw
    ELSE Ok(FeedItems(Sort(Published(coll))))

RssRethrow(r) ==
    IF r.threw THEN [state |-> "thrown", status |-> 0, items |-> <<>>]
    ELSE [state |-> "responded", status |-> 200, items |-> r.val]

\* catch (error) { return new Response('Error generating RSS feed',
\* { status: 500 }) }
RssCatch(r) ==
    IF r.threw THEN [state |-> "responded", status |-> 500, items |-> <<>>]
    ELSE [state |-> "responded", status |-> 200, items |-> r.val]

\* GET of /rss.xml: the feed of the non-draft articles, newest first; any
\* failure of getCollection or of rss() gives a 500 response.
RssGET ==
    /\ rssOut.state = "pending"
    /\ \E failure \in RssFailures :
           /\ rssFailure' = failure
           /\ rssOut' = RssCatch(RssTry(failure, collection))
    /\ UNCHANGED <<collection, pagesOut, homeOut, indexOut,
                   rtVars, tocVars, svgVars>>

\* getStaticPaths of the articles index: the non-draft articles, newest
\* first, paginated; a failure of getCollection is not caught.
GetStaticPaths ==
    /\ pagesOut.state = "pending"
    /\ \E fails \in BOOLEAN :
           pagesOut' =
               IF fails
               THEN [state |-> "thrown", status |-> 0, items |-> <<>>]
               ELSE [state |-> "built", status |-> 0,
                     items |-> Paginate(Sort(Published(collection)),
                                        POSTS_PER_PAGE)]
    /\ UNCHANGED <<collection, rssOut, rssFailure, homeOut, indexOut,
                   rtVars, tocVars, svgVars>>

\* The home page: the NUM_POSTS_ON_HOMEPAGE newest non-draft articles.
HomePage ==
    /\ homeOut.state = "pending"
    /\ \E fails \in BOOLEAN :
           homeOut' =
               IF fails
               THEN [state |-> "thrown", status |-> 0, items |-> <<>>]
               ELSE [state |-> "built", status |-> 0,
                     items |-> Slice(Sort(Published(collection)),
                                     NUM_POSTS_ON_HOMEPAGE)]
    /\ UNCHANGED <<collection, rssOut, rssFailure, pagesOut, indexOut,
                   rtVars, tocVars, svgVars>>

\* post.data.date.getFullYear(): the year grows with the time value; a year
\* holds DatesPerYear of the dates 1..MaxDate.
DatesPerYear == 2
YearOf(date) == (date + DatesPerYear - 1) \div DatesPerYear

\* page.data.reduce(...): the posts of the page under their year, each list
\* in the order of the page.
PostsByYear(page) ==
    [y \in {YearOf(page[k].date) : k \in 1..Len(page)} |->
        SelectSeq(page, LAMBDA post : YearOf(post.date) = y)]

RECURSIVE YearsAscending(_)
YearsAscending(keys) ==
    IF keys = {} THEN <<>>
    ELSE LET m == CHOOSE y \in keys : \A z \in keys : y <= z
         IN  <<m>> \o YearsAscending(keys \ {m})

\* Object.keys(postsByYear).sort((a, b) => parseInt(b) - parseInt(a))
RECURSIVE YearsDescending(_)
YearsDescending(keys) ==
    IF keys = {} THEN <<>>
    ELSE LET m == CHOOSE y \in keys : \A z \in keys : y >= z
         IN  <<m>> \o YearsDescending(keys \ {m})

\* years.map((year) => <section> year, postsByYear[year].map(...) </section>)
RenderPage(page) ==
    LET by    == PostsByYear(page)
        years == YearsDescending(DOMAIN by)
    IN  [k \in 1..Len(years) |-> [year |-> years[k], posts |-> by[years[k]]]]

\* The pages of the articles index are rendered.
RenderIndex ==
    /\ pagesOut.state = "built"
    /\ indexOut.state = "pending"
    /\ indexOut' = [state |-> "built", status |-> 0,
                    items |-> [p \in 1..Len(pagesOut.items) |->
                                  RenderPage(pagesOut.items[p])]]
    /\ UNCHANGED <<collection, rssOut, rssFailure, pagesOut, homeOut,
                   rtVars, tocVars, svgVars>>

InitSite ==
    /\ IsCollection(collection)
    /\ rssOut = NotRun /\ pagesOut = NotRun /\ homeOut = NotRun
    /\ indexOut = NotRun
    /\ rssFailure = "none"
    /\ html = Null /\ rtOut = Pending
    /\ TocIdle
    /\ SvgIdle

NextSite == RssGET \/ GetStaticPaths \/ HomePage \/ RenderIndex

SpecSite == InitSite /\ [][NextSite]_vars

\* ------------------------------------------- diagram post-processing
\* innerHTML of a container: the hidden <img> rendered by the component,
\* the serialized result of modifySvg for an SVG document or for a text
\* that is not SVG (the parser's error document), or the error placeholder.
Img              == "img"
ModifiedSvg      == "svg"
ParserErrorDoc   == "parsererror"
ErrorPlaceholder == "error"

\* How a fetch settles: an ok response with SVG text, an ok response with
\* other text, a response that is not ok, or a rejection.
Outcomes == {"svg", "notsvg", "notok", "rejected"}

NeverProcessed(c, processed) == FALSE

\* processedContainers.has(container)
AlreadyProcessed(c, processed) == c \in processed

\* document.querySelectorAll('.excalidraw-svg').forEach(processSvgContainer),
\* each call up to its first await: the containers for which fetch(svgUrl)
\* is called.
FetchTargets(processed) ==
    {c \in Containers : ~AlreadyProcessed(c, processed) /\ urlOf[c]}

FlagLeftSet == TRUE

\* isProcessing = false, the last statement of initExcalidrawSVG: it runs
\* when forEach returns, while the calls it made are suspended.
FlagAfterRun == FALSE

\* initExcalidrawSVG: return if isProcessing; set the flag, call
\* processSvgContainer on every container (each call runs up to its await of
\* fetch), clear the flag.
InitExcalidrawSVG ==
    IF isProcessing
    THEN UNCHANGED <<isProcessing, inflight>>
    ELSE LET targets == FetchTargets(processedContainers)
         IN  /\ inflight' = [c \in Elements |->
                    IF c \in targets THEN inflight[c] + 1 ELSE inflight[c]]
             /\ isProcessing' = FlagAfterRun

\* The script runs: with document.readyState 'loading' it registers the
\* DOMContentLoaded listener, otherwise it calls initExcalidrawSVG; it
\* registers the astro:page-load and astro:before-swap listeners.
ScriptStart ==
    /\ svgPhase = "unloaded"
    /\ \E readyState \in {"loading", "interactive"} :
           IF readyState = "loading"
           THEN /\ svgPhase' = "waitDCL"
                /\ UNCHANGED <<isProcessing, inflight>>
           ELSE /\ svgPhase' = "ready"
                /\ InitExcalidrawSVG
    /\ lastEvent' = Ran("script")
    /\ UNCHANGED <<processedContainers, view, loads, urlOf, content,
                   rtVars, tocVars, siteVars>>

\* DOMContentLoaded listener
DOMContentLoaded ==
    /\ svgPhase = "waitDCL"
    /\ svgPhase' = "ready"
    /\ InitExcalidrawSVG
    /\ lastEvent' = Ran("DOMContentLoaded")
    /\ UNCHANGED <<processedContainers, view, loads, urlOf, content,
                   rtVars, tocVars, siteVars>>

\* astro:page-load listener
AstroPageLoad ==
    /\ svgPhase \in {"waitDCL", "ready"}
    /\ loads < MaxPageLoads
    /\ loads' = loads + 1
    /\ InitExcalidrawSVG
    /\ lastEvent' = Ran("astro:page-load")
    /\ UNCHANGED <<svgPhase, processedContainers, view, urlOf, content,
                   rtVars, tocVars, siteVars>>

KeepSet(processed) == processed

\* processedContainers.clear()
ClearedSet(processed) == {}

RECURSIVE SumOver(_, _)
SumOver(f, S) ==
    IF S = {} THEN 0
    ELSE LET x == CHOOSE y \in S : TRUE IN f[x] + SumOver(f, S \ {x})

\* astro:before-swap listener. The router dispatches the event and swaps
\* the document in the same task, so nothing runs between the two.
AstroBeforeSwap ==
    /\ svgPhase = "ready"
    /\ view < MaxViews
    /\ svgPhase' = "swapping"
    /\ isProcessing' = FALSE
    /\ processedContainers' = ClearedSet(processedContainers)
    /\ lastEvent' = Ran("astro:before-swap")
    /\ UNCHANGED <<view, loads, urlOf, content, inflight,
                   rtVars, tocVars, siteVars>>

\* The document is swapped: the containers of the next page replace those
\* of the current one; what the script holds of the replaced containers
\* (entries of the visited set, suspended calls) stays with it.
Swap ==
    /\ svgPhase = "swapping"
    /\ svgPhase' = "ready"
    /\ view' = view + 1
    /\ loads' = 0
    /\ urlOf' \in [Containers -> BOOLEAN]
    /\ content' = [c \in Containers |-> Img]
    /\ inflight' = [c \in Elements |->
           IF c = Detached THEN SumOver(inflight, Elements) ELSE 0]
    /\ processedContainers' =
           IF processedContainers = {} THEN {} ELSE {Detached}
    /\ lastEvent' = Ran("swap")
    /\ UNCHANGED <<isProcessing, rtVars, tocVars, siteVars>>

\* modifySvg(svgText): parseFromString does not throw on text that is not
\* SVG, it returns the parser's error document, which is serialized.
ModifySvg(res) == IF res = "svg" THEN ModifiedSvg ELSE ParserErrorDoc

KeepInnerHTML(c, v) == content

\* container.innerHTML = v, for a container of the current document
SetInnerHTML(c, v) ==
    IF c = Detached THEN content ELSE [content EXCEPT ![c] = v]

CatchNothing(c) == content

\* catch (error) { container.innerHTML = `<svg ...>Error loading SVG...` }
CatchBlock(c) == SetInnerHTML(c, ErrorPlaceholder)

\* A fetch for container c settles with outcome r and processSvgContainer
\* resumes: an ok response is read, modified, written to the container and
\* the container is recorded; a response that is not ok or a rejection ends
\* in the catch block.
FetchContinue(c, r) ==
    /\ svgPhase # "swapping"
    /\ inflight[c] > 0
    /\ lastEvent' = Event("fetch", c, r)
    /\ inflight' = [inflight EXCEPT ![c] = @ - 1]
    /\ IF r \in {"svg", "notsvg"}
       THEN /\ content' = SetInnerHTML(c, ModifySvg(r))
            /\ processedContainers' = processedContainers \cup {c}
       ELSE /\ content' = CatchBlock(c)
            /\ UNCHANGED processedContainers
    /\ UNCHANGED <<svgPhase, isProcessing, view, loads, urlOf,
                   rtVars, tocVars, siteVars>>

InitSvg ==
    /\ svgPhase = "unloaded" /\ isProcessing = FALSE
    /\ lastEvent = Ran("none")
    /\ processedContainers = {} /\ view = 1 /\ loads = 0
    /\ urlOf \in [Containers -> BOOLEAN]
    /\ content = [c \in Containers |-> Img]
    /\ inflight = [c \in Elements |-> 0]
    /\ html = Null /\ rtOut = Pending
    /\ TocIdle
    /\ SiteIdle

NextSvg ==
    \/ ScriptStart
    \/ DOMContentLoaded
    \/ AstroPageLoad
    \/ AstroBeforeSwap
    \/ Swap
    \/ \E c \in Elements : \E r \in Outcomes : FetchContinue(c, r)

SpecSvg == InitSvg /\ [][NextSvg]_vars

\* The script of a rendered page runs, DOMContentLoaded fires when the
\* script waits for it, the swap follows its astro:before-swap event, and
\* every fetch that was started settles. Nothing obliges astro:page-load or
\* a navigation to happen.
FairSvg ==
    /\ WF_vars(ScriptStart)
    /\ WF_vars(DOMContentLoaded)
    /\ WF_vars(Swap)
    /\ \A c \in Elements : WF_vars(\E r \in Outcomes : FetchContinue(c, r))

SpecSvgFair == SpecSvg /\ FairSvg

\* ------------------------------------------- reading-time properties
RTDone == rtOut.status # "pending"

\* The text the words are counted in: the input with its tags removed.
TextOf(h) == StripTags(OrEmpty(h)).val

\* Number of non-empty whitespace-separated tokens of s.
TokenCount(s) ==
    Cardinality({i \in 1..Len(s) : s[i] \notin WS /\ (i = 1 \/ s[i - 1] \in WS)})

\* max(1, ceil(w / 200)): the least n >= 1 with 200 n >= w.
ExpectedMinutes(w) ==
    CHOOSE n \in 1..(w + 1) : 200 * n >= w /\ (n = 1 \/ 200 * (n - 1) < w)

Returned(str) == [status |-> "returned", value |-> str]

\* C1: for every input, readingTime returns "N min read" with
\* N = max(1, ceil(w / 200)), w the number of words left after removing the
\* tags, whatever the length of the words.
C1_WordCountContract ==
    RTDone => rtOut = Returned(Format(ExpectedMinutes(TokenCount(TextOf(html)))))

\* C2: readingTime(null), readingTime(undefined) and readingTime("") return
\* "1 min read" and do not fail.
C2_EmptyInputs ==
    (RTDone /\ html \in {Null, Undefined, Str(<<>>)})
        => (rtOut = Returned("1 min read") /\ ~TryBody(html).threw)

C2_Witness == RTDone /\ html = Null /\ rtOut.value = "1 min read"

\* C3: HTML text of 1 to 200 words gives "1 min read" whatever the lengths of
\* the words.
C3_UpTo200Words ==
    (RTDone /\ html.kind = "string" /\ TokenCount(TextOf(html)) \in 1..200)
        => rtOut = Returned("1 min read")

\* C4: w repetitions of a short word, separated by whitespace and wrapped in
\* a tag, give ceil(w / 200) minutes for w >= 1: 200 -> 1, 201 -> 2,
\* 400 -> 2, 401 -> 3.
IsTaggedWords(h, l, w) ==
    /\ h.kind = "string"
    /\ Len(h.chars) = 7 + (l + 1) * w
    /\ h.chars = TaggedWords(l, w)

C4_RoundsUpAt200 ==
    RTDone =>
        \A l \in 1..LongWordLimit :
            LET w == (Len(html.chars) - 7) \div (l + 1)
            IN  (w >= 1 /\ IsTaggedWords(html, l, w)) =>
                    /\ rtOut = Returned(Format(ExpectedMinutes(w)))
                    /\ w = 200 => rtOut.value = "1 min read"
                    /\ w = 201 => rtOut.value = "2 min read"
                    /\ w = 400 => rtOut.value = "2 min read"
                    /\ w = 401 => rtOut.value = "3 min read"

C4_Witness ==
    RTDone /\ IsTaggedWords(html, 4, 400) /\ rtOut.value = "2 min read"

\* C5: readingTime never propagates an exception: a failure raised during
\* the computation is caught and the fixed fallback string is returned.
C5_NeverThrows ==
    RTDone =>
        /\ rtOut.status = "returned"
        /\ TryBody(html).threw => rtOut.value = Fallback

C5_Witness == RTDone /\ TryBody(html).threw /\ rtOut = Returned(Fallback)

\* The words readingTime counts in h: the tags removed, the text trimmed,
\* split on whitespace, the empty pieces dropped.
WordsOf(h) == FilterBoolean(Split(Trim(TextOf(h))))

\* C21: for the document with several elements the text of adjacent
\* elements counts as separate words, 9 words in all, and the result is
\* "1 min read".
C21_AdjacentElementsAreSeparateWords ==
    (RTDone /\ html = Str(MultiTagHtml)) =>
        /\ Len(WordsOf(html)) = 9
        /\ rtOut = Returned("1 min read")

\* The number N of a result "N min read".
MaxMinutes == 20     \* largest N of a result "N min read" that is read back
ReportedMinutes(out) == CHOOSE n \in 1..MaxMinutes : Format(n) = out.value

\* Words appended to a text, each after a space: a short one and a long one.
AppendedWords ==
    {<<" ", "a">>, <<" ", "a", " ", "a">>, <<" ", "w", "o", "r", "d", "i", "n">>}

\* C24: appending words to the input never decreases the minutes reported.
C24_MonotoneInText ==
    (RTDone /\ html.kind = "string") =>
        \A a \in AppendedWords :
            ReportedMinutes(rtOut)
                <= ReportedMinutes(readingTime(Str(html.chars \o a)))

\* ------------------------------------------------- buildToc properties
TocDone == tocStatus = "returned"

\* The output forest: the roots are toc, the children of the heading at
\* position n are nodes[n].subheadings.
Children(n) == nodes[n].subheadings
Range(q) == {q[k] : k \in 1..Len(q)}

\* Nearest preceding heading of strictly smaller depth, 0 if there is none.
NearestShallower(i) ==
    LET S == {j \in 1..(i - 1) : headings[j].depth < headings[i].depth}
    IN  IF S = {} THEN 0 ELSE CHOOSE j \in S : \A k \in S : k <= j

\* C6: every node's direct children are strictly deeper than the node.
C6_ChildrenDeeper ==
    TocDone =>
        \A n \in 1..Len(nodes) :
            \A c \in Range(Children(n)) : nodes[c].depth > nodes[n].depth

C6_Witness ==
    /\ TocDone
    /\ \E n \in 1..Len(nodes) : Len(Children(n)) >= 2
    /\ \E i \in 2..Len(headings) : headings[i].depth = headings[i - 1].depth

\* C7: the parent of each heading is the nearest preceding heading of
\* strictly smaller depth, and a heading is a root exactly when there is
\* none.
C7_ParentIsNearestShallower ==
    TocDone =>
        \A i \in 1..Len(headings) :
            /\ i \in Range(toc) <=> NearestShallower(i) = 0
            /\ \A n \in 1..Len(nodes) :
                   i \in Range(Children(n)) <=> n = NearestShallower(i)

C7_Witness ==
    /\ TocDone
    /\ \E i \in 3..Len(headings) :
           /\ NearestShallower(i) \notin {0, i - 1}
           /\ i \in Range(Children(NearestShallower(i)))
    /\ \E i \in 2..Len(headings) : i \in Range(toc)

\* Pre-order traversal of the forest whose roots are the positions in q.
RECURSIVE PreOrder(_, _)
PreOrder(q, ns) ==
    IF q = <<>> THEN <<>>
    ELSE <<Head(q)>> \o PreOrder(ns[Head(q)].subheadings, ns)
             \o PreOrder(Tail(q), ns)

\* C8: the pre-order traversal of the returned forest is the input heading
\* sequence: every heading once, in order, with its depth and slug.
C8_PreOrderIsInput ==
    TocDone =>
        /\ PreOrder(toc, nodes) = [i \in 1..Len(headings) |-> i]
        /\ \A i \in 1..Len(headings) :
               /\ nodes[i].depth = headings[i].depth
               /\ nodes[i].slug = headings[i].slug

C8_Witness ==
    /\ TocDone
    /\ Len(toc) >= 2
    /\ \E n \in 1..Len(nodes) :
           /\ Len(Children(n)) >= 2
           /\ Children(Children(n)[1]) # <<>>

\* C9: buildToc never fails, and the first heading is a root whatever its
\* depth, also when the sequence starts at depth 3 or 4 or skips levels.
C9_FirstHeadingIsRoot ==
    /\ tocStatus # "thrown"
    /\ tocPos >= 1 =>
           /\ toc # <<>>
           /\ toc[1] = 1
           /\ nodes[1].depth = headings[1].depth
    /\ TocDone => PreOrder(toc, nodes) = [i \in 1..Len(headings) |-> i]

C9_Witness ==
    /\ TocDone
    /\ Len(headings) >= 3
    /\ headings[1].depth = 4
    /\ headings[2].depth = 6
    /\ headings[3].depth = 1
    /\ toc[1] = 1

\* Every heading below the heading at position n in the output forest.
RECURSIVE Descendants(_)
Descendants(n) ==
    UNION {{c} \cup Descendants(c) : c \in Range(Children(n))}

\* Position of the next heading after i that is not deeper than heading i,
\* or the position after the last heading.
NextNotDeeper(i) ==
    LET S == {k \in (i + 1)..Len(headings) :
                 headings[k].depth <= headings[i].depth}
    IN  IF S = {} THEN Len(headings) + 1 ELSE Min(S)

\* C19: the descendants of the heading at position i are exactly the
\* headings between i and the next heading that is not deeper than it.
C19_DescendantsAreFollowingRun ==
    TocDone =>
        \A i \in 1..Len(headings) :
            Descendants(i) = (i + 1)..(NextNotDeeper(i) - 1)

C19_Witness ==
    /\ TocDone
    /\ \E i \in 1..Len(headings) :
           /\ NextNotDeeper(i) <= Len(headings)
           /\ Cardinality(Descendants(i)) >= 3
           /\ Len(Children(i)) = 1
    /\ \E i \in 1..(Len(headings) - 1) : Descendants(i) = {}

\* C20: after each heading is handled, the stack holds the chain of open
\* ancestors: depths strictly increasing from the bottom, the bottom a root,
\* each entry a child of the one below, the top the heading just handled, at
\* most MaxDepth entries; handling a heading pops entries off the top and
\* pushes that heading only, so no heading is pushed twice or comes back
\* after it was popped.
C20_StackIsAncestorChain ==
    /\ []((tocStatus = "running" /\ tocPos >= 1) =>
            /\ Len(stack) >= 1
            /\ stack[Len(stack)] = tocPos
            /\ stack[1] \in Range(toc)
            /\ \A k \in 1..(Len(stack) - 1) :
                   /\ nodes[stack[k]].depth < nodes[stack[k + 1]].depth
                   /\ stack[k + 1] \in Range(Children(stack[k]))
            /\ Len(stack) <= MaxDepth)
    /\ [][tocPos' # tocPos =>
            /\ tocPos' = tocPos + 1
            /\ \E k \in 0..Len(stack) :
                   stack' = Append(SubSeq(stack, 1, k), tocPos')]_vars

C20_Witness ==
    /\ tocStatus = "running"
    /\ Len(stack) >= 3
    /\ \E j \in 1..tocPos :
           /\ j \notin Range(stack)
           /\ \E k \in 1..Len(stack) : stack[k] > j
    /\ \E j \in 1..tocPos : j \notin Range(stack) /\ j \in Range(toc)

\* The members of a set of positions in increasing order.
RECURSIVE Ordered(_)
Ordered(S) ==
    IF S = {} THEN <<>>
    ELSE LET m == Min(S) IN <<m>> \o Ordered(S \ {m})

\* The headings whose nearest preceding shallower heading is n (0: none).
ChildrenByDepth(n) ==
    Ordered({i \in 1..Len(headings) : NearestShallower(i) = n})

\* C25: buildToc leaves its input as it was, whatever subheadings the input
\* headings carry, and the nesting it returns is the one given by the depths
\* and the order alone.
C25_InputUntouched ==
    /\ [][headings' = headings]_vars
    /\ [](TocDone =>
            /\ toc = ChildrenByDepth(0)
            /\ \A n \in 1..Len(nodes) :
                   nodes[n].subheadings = ChildrenByDepth(n))

C25_Witness ==
    /\ TocDone
    /\ \E n \in 1..Len(nodes) :
           /\ headings[n].subheadings = <<Stale>>
           /\ Len(Children(n)) >= 2
    /\ \E n \in 1..Len(nodes) :
           /\ headings[n].subheadings = <<Stale>>
           /\ Children(n) = <<>>
    /\ \E n \in 1..Len(nodes) : headings[n].subheadings = <<>>

\* --------------------------------------------------- listing properties
NonDraftIds == {collection[i].id : i \in {k \in 1..Len(collection) : ~collection[k].draft}}
DraftIds    == {collection[i].id : i \in {k \in 1..Len(collection) : collection[k].draft}}

RECURSIVE Flatten(_)
Flatten(pages) ==
    IF pages = <<>> THEN <<>> ELSE Head(pages) \o Flatten(Tail(pages))

FeedIds  == [k \in 1..Len(rssOut.items) |-> rssOut.items[k].link]
IndexIds == LET all == Flatten(pagesOut.items) IN [k \in 1..Len(all) |-> all[k].id]
HomeIds  == [k \in 1..Len(homeOut.items) |-> homeOut.items[k].id]

NoDuplicates(q) == Cardinality(Range(q)) = Len(q)
ExactlyNonDrafts(q) == Range(q) = NonDraftIds /\ NoDuplicates(q)

FeedServed == rssOut.state = "responded" /\ rssOut.status = 200
IndexBuilt == pagesOut.state = "built"
HomeBuilt  == homeOut.state = "built"

\* C10 as stated: the RSS feed, the pages of the articles index and the home
\* page each contain exactly the non-draft articles, each at most once.
C10_AllListExactlyNonDrafts ==
    /\ FeedServed => ExactlyNonDrafts(FeedIds)
    /\ IndexBuilt => ExactlyNonDrafts(IndexIds)
    /\ HomeBuilt => ExactlyNonDrafts(HomeIds)

\* C10 amended: no listing contains a draft or lists an article twice; the
\* RSS feed and the pages of the articles index together contain exactly
\* the non-draft articles; the home page contains only non-draft articles,
\* the NUM_POSTS_ON_HOMEPAGE newest of them (all when there are fewer).
C10_DraftsExcluded ==
    /\ FeedServed => ExactlyNonDrafts(FeedIds)
    /\ IndexBuilt => ExactlyNonDrafts(IndexIds)
    /\ HomeBuilt =>
           /\ Range(HomeIds) \subseteq NonDraftIds
           /\ NoDuplicates(HomeIds)
           /\ Len(HomeIds) =
                  IF Cardinality(NonDraftIds) < NUM_POSTS_ON_HOMEPAGE
                  THEN Cardinality(NonDraftIds) ELSE NUM_POSTS_ON_HOMEPAGE
           /\ \A i \in Range(HomeIds) : \A j \in NonDraftIds \ Range(HomeIds) :
                  collection[i].date >= collection[j].date

C10_Witness ==
    /\ FeedServed /\ IndexBuilt /\ HomeBuilt
    /\ DraftIds # {}
    /\ Cardinality(NonDraftIds) > NUM_POSTS_ON_HOMEPAGE
    /\ Len(rssOut.items) = Cardinality(NonDraftIds)

\* C11: the items of the RSS feed are ordered newest first (each item's date
\* is at least the next item's), one item with title, pubDate and link per
\* non-draft article.
C11_FeedNewestFirst ==
    FeedServed =>
        /\ \A k \in 1..(Len(rssOut.items) - 1) :
               rssOut.items[k].pubDate >= rssOut.items[k + 1].pubDate
        /\ Len(rssOut.items) = Cardinality(NonDraftIds)
        /\ \A k \in 1..Len(rssOut.items) :
               LET it == rssOut.items[k]
               IN  /\ it.link \in NonDraftIds
                   /\ it.title = collection[it.link].id
                   /\ it.pubDate = collection[it.link].date

C11_Witness ==
    /\ FeedServed
    /\ Len(rssOut.items) >= 3
    /\ rssOut.items[1].pubDate > rssOut.items[3].pubDate
    /\ \E i \in 1..Len(collection) : \E j \in (i + 1)..Len(collection) :
           /\ ~collection[i].draft /\ ~collection[j].draft
           /\ collection[i].date < collection[j].date

\* C12: the pages of the articles index, concatenated in page order, are the
\* non-draft articles sorted by date descending; a page holds at most
\* POSTS_PER_PAGE articles and only the last page may hold fewer.
C12_IndexNewestFirstAcrossPages ==
    IndexBuilt =>
        LET pages == pagesOut.items
            all   == Flatten(pages)
        IN  /\ ExactlyNonDrafts(IndexIds)
            /\ \A k \in 1..(Len(all) - 1) : all[k].date >= all[k + 1].date
            /\ \A p \in 1..Len(pages) : Len(pages[p]) <= POSTS_PER_PAGE
            /\ \A p \in 1..(Len(pages) - 1) : Len(pages[p]) = POSTS_PER_PAGE

C12_Witness ==
    /\ IndexBuilt
    /\ Len(pagesOut.items) >= 2
    /\ Len(pagesOut.items[Len(pagesOut.items)]) < POSTS_PER_PAGE
    /\ pagesOut.items[1][1].date > pagesOut.items[2][1].date

RECURSIVE GroupsFlat(_)
GroupsFlat(groups) ==
    IF groups = <<>> THEN <<>>
    ELSE Head(groups).posts \o GroupsFlat(Tail(groups))

\* C26: on every page of the articles index the year groups, read top to
\* bottom, give the posts of the page in the order of the paginated list,
\* every post in exactly one group, the groups in descending year order.
C26_YearGroupsKeepOrder ==
    indexOut.state = "built" =>
        \A p \in 1..Len(pagesOut.items) :
            LET page   == pagesOut.items[p]
                groups == indexOut.items[p]
            IN  /\ GroupsFlat(groups) = page
                /\ \A k \in 1..(Len(groups) - 1) :
                       groups[k].year > groups[k + 1].year
                /\ \A k \in 1..Len(page) :
                       Cardinality({g \in 1..Len(groups) :
                           page[k] \in Range(groups[g].posts)}) = 1

C26_Witness ==
    /\ indexOut.state = "built"
    /\ \E p \in 1..Len(indexOut.items) :
           LET groups == indexOut.items[p]
           IN  /\ Len(groups) >= 2
               /\ \E g \in 1..Len(groups) :
                      /\ Len(groups[g].posts) >= 2
                      /\ groups[g].posts[1].date > groups[g].posts[2].date

\* ------------------------------------- diagram post-processing properties
\* A step in which initExcalidrawSVG is called.
InitRunStep == ScriptStart \/ DOMContentLoaded \/ AstroPageLoad

\* A step in which the fetch for container c fails (response not ok, or
\* rejection) and processSvgContainer resumes.
FetchFailed(c) == FetchContinue(c, "notok") \/ FetchContinue(c, "rejected")

\* C14: once a container is in the visited set, a run of initExcalidrawSVG
\* in the same page view starts no fetch for it and leaves its content as it
\* is.
C14_ProcessedNotRefetched ==
    [][InitRunStep =>
          \A c \in Containers :
              c \in processedContainers =>
                  /\ inflight'[c] = inflight[c]
                  /\ content'[c] = content[c]]_vars

C14_Witness ==
    /\ lastEvent = Ran("astro:page-load")
    /\ 1 \in processedContainers
    /\ urlOf[1]
    /\ inflight[1] = 0
    /\ content[1] = ModifiedSvg

\* C15: within one page view a container never has more than one fetch in
\* flight, whatever events trigger initExcalidrawSVG while a fetch is
\* outstanding.
C15_AtMostOneFetchInFlight ==
    \A c \in Containers : inflight[c] <= 1

\* C16: when the fetch for a container fails, the container shows the error
\* placeholder, the script goes on as before, and the other containers of the
\* page keep their content and their outstanding fetches.
C16_FailureIsContained ==
    [][\A c \in Containers :
          FetchFailed(c) =>
              /\ content'[c] = ErrorPlaceholder
              /\ \A d \in Containers \ {c} :
                     /\ content'[d] = content[d]
                     /\ inflight'[d] = inflight[d]
              /\ processedContainers' = processedContainers
              /\ svgPhase' = svgPhase
              /\ isProcessing' = isProcessing]_vars

C16_Witness ==
    /\ lastEvent = Event("fetch", 1, "notok")
    /\ content[1] = ErrorPlaceholder
    /\ content[2] = ModifiedSvg
    /\ 2 \in processedContainers
    /\ 1 \notin processedContainers

\* C17: a container that shows the error placeholder is not fetched again
\* during the same page view.
C17_NoRetryAfterFailure ==
    [][\A c \in Containers :
          (content[c] = ErrorPlaceholder /\ view' = view) =>
              inflight'[c] <= inflight[c]]_vars

\* C18: the astro:before-swap listener empties the visited set and clears
\* the flag without touching the containers' content, and the first
\* astro:page-load of the new page starts a fetch for every container of
\* that page that has an asset URL, so all of them have been fetched from
\* then on.
C18_VisitedSetIsPerPageView ==
    /\ [][/\ AstroBeforeSwap =>
                /\ processedContainers' = {}
                /\ isProcessing' = FALSE
                /\ content' = content
          /\ (AstroPageLoad /\ view > 1 /\ loads = 0) =>
                \A c \in Containers :
                    urlOf[c] => inflight'[c] = inflight[c] + 1]_vars
    /\ [](view > 1 /\ loads >= 1 =>
             \A c \in Containers :
                 urlOf[c] => (inflight[c] > 0 \/ content[c] # Img))

C18_Witness ==
    /\ view = 2
    /\ lastEvent = Ran("astro:page-load")
    /\ \A c \in Containers : urlOf[c] /\ inflight[c] = 1 /\ content[c] = Img
    /\ processedContainers = {}

\* C22: when the fetch succeeds but the text is not SVG, the container shows
\* the error placeholder and is not recorded as processed.
C22_ParseFailureShowsPlaceholder ==
    \A c \in Containers :
        lastEvent = Event("fetch", c, "notsvg") =>
            /\ content[c] = ErrorPlaceholder
            /\ c \notin processedContainers

\* What processSvgContainer writes on its success path: the string modifySvg
\* returned for the text of an ok response.
PostProcessed == {ModifySvg(r) : r \in {"svg", "notsvg"}}

C27_ProcessedShowsSvg ==
    \A c \in Containers :
        c \in processedContainers => content[c] \in PostProcessed

\* C28: isProcessing is false whenever a handler or a continuation starts,
\* so a run of initExcalidrawSVG never returns early: it starts a fetch for
\* every container with an asset URL that is not in the visited set.
C28_FlagNeverSetBetweenHandlers ==
    /\ [](isProcessing = FALSE)
    /\ [][(DOMContentLoaded \/ AstroPageLoad) =>
             \A c \in FetchTargets(processedContainers) :
                 inflight'[c] = inflight[c] + 1]_vars

C28_Witness ==
    /\ lastEvent = Ran("astro:page-load")
    /\ isProcessing = FALSE
    /\ urlOf[1]
    /\ inflight[1] = 2

\* C29: after a navigation the visited set holds no container of a replaced
\* document, also when a fetch started on the previous page settles after
\* the swap, and such a late completion writes into no container of the new
\* page.
C29_NoLeakAcrossNavigation ==
    /\ [](Detached \notin processedContainers)
    /\ [][\A r \in Outcomes :
             FetchContinue(Detached, r) => content' = content]_vars

====
